---- MODULE Spec2Model ----
(***************************************************************************)
(* Model of v_escape_derive/src/generator.rs: the 256-entry classification *)
(* table (Generator::write_static_table) and the range/escape compaction   *)
(* (Generator::calculate_ranges with its push_* helpers).                  *)
(*                                                                         *)
(* A pair is represented by its `char` byte; `pairs` is the sorted, unique *)
(* slice the parser hands to the generator.  Rust indices are 0-based: the *)
(* operator Char(p, i) reads self.pairs[i].char.                           *)
(***************************************************************************)
EXTENDS Integers, Sequences, FiniteSets, TLC

\* End flag for indicate more escapes than ranges
FLAG == 128

\* Bound of the explored inputs: the low bytes 0..MaxLow are explored together
\* with the bytes around FLAG and the top byte.
MaxLow == 6

HighBytes == {FLAG - 1, FLAG, FLAG + 1, 255}

Universe == (0 .. MaxLow) \cup HighBytes

Min(S) == CHOOSE m \in S : \A x \in S : m <= x

RECURSIVE Ascending(_)
Ascending(S) == IF S = {} THEN << >>
                ELSE <<Min(S)>> \o Ascending(S \ {Min(S)})

\* The pair lists the parser can produce: non-empty, sorted ascending, unique.
ValidPairs == { Ascending(S) : S \in (SUBSET Universe) \ {{}} }

\* What reading self.pairs[i] yields when i is not an index of the slice: the
\* read panics, and the value marks the panic in whatever was built from it.
OutOfBounds == -1

Char(p, i) == IF i \in 0 .. (Len(p) - 1) THEN p[i + 1] ELSE OutOfBounds

Last(s) == s[Len(s)]

VARIABLES pairs, table, ranges, sel, panic, pc

vars == <<pairs, table, ranges, sel, panic, pc>>

----------------------------------------------------------------------------
(* write_static_table *)

\* slice::binary_search_by(|s| s.char.cmp(&b)) over p[lo..hi): the index of
\* the pair whose char is b, or -1 for Err.
RECURSIVE BinarySearchBy(_, _, _, _)
BinarySearchBy(p, b, lo, hi) ==
    IF lo >= hi THEN -1
    ELSE LET mid == lo + ((hi - lo) \div 2) IN
         IF Char(p, mid) = b THEN mid
         ELSE IF Char(p, mid) < b THEN BinarySearchBy(p, b, mid + 1, hi)
         ELSE BinarySearchBy(p, b, lo, mid)

UnwrapOrZero(p, b) ==
    LET n == BinarySearchBy(p, b, 0, Len(p)) IN IF n = -1 THEN 0 ELSE n

\* binary_search_by(..).unwrap_or(len)
TableEntry(p, b) ==
    LET n == BinarySearchBy(p, b, 0, Len(p)) IN IF n = -1 THEN Len(p) ELSE n

\* for i in 0..=255 as u8 { buf.write(format!("{}, ", n)) }: the k-th entry
\* written is the one of byte k - 1.
StaticTable(p) == [k \in 1 .. 256 |-> TableEntry(p, k - 1)]

----------------------------------------------------------------------------
(* calculate_ranges *)

\* What calculate_ranges returns: the pushed bytes, with the shape the
\* pushing code names (how many ranges, how many escapes, FLAG pushed or not).
Out(bytes, nr, ne, fl) == [bytes |-> bytes, ranges |-> nr, escapes |-> ne, flag |-> fl]

NoOut == Out(<< >>, 0, 0, FALSE)

\* for i in 0..len { let diff = pairs[i+1].char - pairs[i].char;
\*                   if 1 < diff { d.push((i, diff)) } }
RECURSIVE GapsFrom(_, _, _)
GapsFrom(p, i, len) ==
    IF i >= len THEN << >>
    ELSE LET diff == (Char(p, i + 1) - Char(p, i)) % 256 IN
         (IF 1 < diff THEN << <<i, diff>> >> ELSE << >>) \o GapsFrom(p, i + 1, len)

Gaps(p) == GapsFrom(p, 0, Len(p) - 1)

SeqRange(s) == { s[k] : k \in 1 .. Len(s) }

RECURSIVE AscOrders(_)
AscOrders(S) ==
    IF S = {} THEN { << >> }
    ELSE UNION { { <<m>> \o t : t \in AscOrders(S \ {m}) } :
                 m \in { x \in S : \A y \in S : x[2] <= y[2] } }

\* d.sort_unstable_by(|a, b| b.1.cmp(&a.1)): every order of the entries that
\* is descending by width; entries of equal width may come in any order.
RECURSIVE DescOrders(_)
DescOrders(S) ==
    IF S = {} THEN { << >> }
    ELSE UNION { { <<m>> \o t : t \in DescOrders(S \ {m}) } :
                 m \in { x \in S : \A y \in S : y[2] <= x[2] } }

SortUnstableByWidth(d) == DescOrders(SeqRange(d))

\* `d` cut to its first two entries, without the sort by position
SplitNoSort(ds) == <<ds[1], ds[2]>>

\* let (d, _) = d.split_at_mut(2); d.sort_unstable_by_key(|d| d.0);
SplitSortByKey(ds) ==
    IF ds[1][1] <= ds[2][1] THEN <<ds[1], ds[2]>> ELSE <<ds[2], ds[1]>>

\* fn push_1_ranges_2_escape_at_first
Push1Ranges2EscapeAtFirst(p, first, last, len) ==
    Out(<<Char(p, last + 1), Char(p, len), Char(p, 0), Char(p, first + 1), FLAG>>,
        1, 2, TRUE)

\* push_1_ranges_2_escape_at_last without its r.push(FLAG)
Push1Ranges2EscapeAtLastNoFlag(p, first, last, len) ==
    Out(<<Char(p, 0), Char(p, first), Char(p, last), Char(p, len)>>,
        1, 2, FALSE)

\* fn push_1_ranges_2_escape_at_last
Push1Ranges2EscapeAtLast(p, first, last, len) ==
    Out(<<Char(p, 0), Char(p, first), Char(p, last), Char(p, len), FLAG>>,
        1, 2, TRUE)

\* push_1_ranges_2_escape_at_first_last with its range starting at pairs[first]
Push1Ranges2EscapeAtFirstLastOffByOne(p, first, last, len) ==
    Out(<<Char(p, first), Char(p, last), Char(p, 0), Char(p, len), FLAG>>,
        1, 2, TRUE)

\* fn push_1_ranges_2_escape_at_first_last
Push1Ranges2EscapeAtFirstLast(p, first, last, len) ==
    Out(<<Char(p, first + 1), Char(p, last), Char(p, 0), Char(p, len), FLAG>>,
        1, 2, TRUE)

\* push_2_ranges_1_escape pushing in byte order, the escape in the middle
Push2Ranges1EscapeInOrder(p, first, last, len) ==
    Out(<<Char(p, 0), Char(p, first), Char(p, first + 1), Char(p, last + 1),
          Char(p, len)>>,
        2, 1, FALSE)

\* push_2_ranges_1_escape pushing pairs[first] as the escape (off by one)
Push2Ranges1EscapeOffByOne(p, first, last, len) ==
    Out(<<Char(p, 0), Char(p, first), Char(p, last + 1), Char(p, len),
          Char(p, first)>>,
        2, 1, FALSE)

\* fn push_2_ranges_1_escape
Push2Ranges1Escape(p, first, last, len) ==
    Out(<<Char(p, 0), Char(p, first), Char(p, last + 1), Char(p, len),
          Char(p, first + 1)>>,
        2, 1, FALSE)

\* push_2_ranges_1_escape_at_first pushing in byte order, the escape first
Push2Ranges1EscapeAtFirstInOrder(p, first, last, len) ==
    Out(<<Char(p, 0), Char(p, first + 1), Char(p, last), Char(p, last + 1),
          Char(p, len)>>,
        2, 1, FALSE)

\* fn push_2_ranges_1_escape_at_first
Push2Ranges1EscapeAtFirst(p, first, last, len) ==
    Out(<<Char(p, first + 1), Char(p, last), Char(p, last + 1), Char(p, len),
          Char(p, 0)>>,
        2, 1, FALSE)

\* fn push_2_ranges_1_escape_at_last
Push2Ranges1EscapeAtLast(p, first, last, len) ==
    Out(<<Char(p, 0), Char(p, first), Char(p, first + 1), Char(p, last),
          Char(p, len)>>,
        2, 1, FALSE)

\* fn push_3_ranges
Push3Ranges(p, first, last, len) ==
    Out(<<Char(p, 0), Char(p, first), Char(p, first + 1), Char(p, last),
          Char(p, last + 1), Char(p, len)>>,
        3, 0, FALSE)

\* if len == 1 { ranges.push(pairs[0].char); ranges.push(FLAG); return }
OneEscape(p) == Out(<<Char(p, 0), FLAG>>, 0, 1, TRUE)

\* the `0` arm ending its range at pairs[len - 1]
ZeroBreaksOffByOne(p, len) == Out(<<Char(p, 0), Char(p, len - 1)>>, 1, 0, FALSE)

\* match d.len() { 0 => 1 range }
ZeroBreaks(p, len) == Out(<<Char(p, 0), Char(p, len)>>, 1, 0, FALSE)

\* the `1` arm with the range of its `i == 0` case starting at pairs[i]
OneBreakOffByOne(p, len, i) ==
    IF len = 1
    THEN Out(<<Char(p, 0), Char(p, len), FLAG>>, 0, 2, TRUE)
    ELSE IF i = 0
    THEN Out(<<Char(p, i), Char(p, len), Char(p, 0)>>, 1, 1, FALSE)
    ELSE IF i + 1 # len
    THEN Out(<<Char(p, 0), Char(p, i), Char(p, i + 1), Char(p, len)>>, 2, 0, FALSE)
    ELSE Out(<<Char(p, 0), Char(p, i), Char(p, i + 1)>>, 1, 1, FALSE)

\* match d.len() { 1 => .. }, with i the position of the only break
OneBreak(p, len, i) ==
    IF len = 1
    THEN \* 2 escapes
         Out(<<Char(p, 0), Char(p, len), FLAG>>, 0, 2, TRUE)
    ELSE IF i = 0
    THEN \* 1 escape and 1 range
         Out(<<Char(p, i + 1), Char(p, len), Char(p, 0)>>, 1, 1, FALSE)
    ELSE IF i + 1 # len
    THEN \* 2 ranges
         Out(<<Char(p, 0), Char(p, i), Char(p, i + 1), Char(p, len)>>, 2, 0, FALSE)
    ELSE \* 1 escape and 1 range
         Out(<<Char(p, 0), Char(p, i), Char(p, i + 1)>>, 1, 1, FALSE)

\* 3 escapes: for Pair { char, .. } in self.pairs { ranges.push(*char) }
\*            ranges.push(FLAG)
ThreeEscapes(p) == Out(p \o <<FLAG>>, 0, Len(p), TRUE)

\* the dispatch on first and last, the positions of the two selected breaks
TwoBreaks(p, first, last, len) ==
    IF first + 1 = last
    THEN IF first = 0
         THEN Push1Ranges2EscapeAtFirst(p, first, last, len)
         ELSE IF last + 1 = len
              THEN Push1Ranges2EscapeAtLast(p, first, last, len)
              ELSE Push2Ranges1Escape(p, first, last, len)
    ELSE IF first = 0
         THEN IF last + 1 = len
              THEN Push1Ranges2EscapeAtFirstLast(p, first, last, len)
              ELSE Push2Ranges1EscapeAtFirst(p, first, last, len)
         ELSE IF last + 1 = len
              THEN Push2Ranges1EscapeAtLast(p, first, last, len)
              ELSE Push3Ranges(p, first, last, len)

\* the `_` arm with `len <= 3` for `len <= 2` and no assertion
ManyBreaksFourEscapes(p, len, ds) ==
    IF len <= 3
    THEN ThreeEscapes(p)
    ELSE LET d == SplitSortByKey(ds) IN TwoBreaks(p, d[1][1], d[2][1], len)

\* match d.len() { _ => .. }, with ds the sorted break list
ManyBreaks(p, len, ds) ==
    IF len <= 2
    THEN ThreeEscapes(p)
    ELSE LET d == SplitSortByKey(ds) IN TwoBreaks(p, d[1][1], d[2][1], len)

\* calculate_ranges, for one outcome ds of the unstable sort of the breaks
CalculateRangesWith(p, ds) ==
    IF Len(p) = 1 THEN OneEscape(p)
    ELSE LET len == Len(p) - 1 IN
         CASE Len(ds) = 0 -> ZeroBreaks(p, len)
           [] Len(ds) = 1 -> OneBreak(p, len, ds[1][1])
           [] OTHER       -> ManyBreaks(p, len, ds)

\* let first = d[0].0; let last = d[1].0; -- << >> when the code does not get
\* there
Selected(p, ds) ==
    IF Len(p) > 1 /\ Len(ds) >= 2 /\ Len(p) - 1 > 2
    THEN LET d == SplitSortByKey(ds) IN <<d[1][1], d[2][1]>>
    ELSE << >>

\* The panic calculate_ranges ends with, "none" when it returns: the u8
\* subtraction of the gap loop (overflow checks on), assert_eq!(len, 2), and
\* the slice indexing of the arms and the push_* helpers.
Panic(p, ds) ==
    LET len == Len(p) - 1 IN
    IF \E i \in 0 .. (len - 1) : Char(p, i + 1) < Char(p, i) THEN "overflow"
    ELSE IF Len(p) > 1 /\ Len(ds) >= 2 /\ len <= 2 /\ len # 2 THEN "assert_eq"
    ELSE IF OutOfBounds \in SeqRange(CalculateRangesWith(p, ds).bytes) THEN "index"
    ELSE "none"

----------------------------------------------------------------------------
(* The state machine: a Generator is constructed over a pair list, and     *)
(* write_static_table and calculate_ranges are each run on it once.        *)

Init ==
    /\ pairs \in ValidPairs
    /\ table = << >>
    /\ ranges = NoOut
    /\ sel = << >>
    /\ panic = "none"
    /\ pc = [table |-> "ready", ranges |-> "ready"]

WriteStaticTable ==
    /\ pc.table = "ready"
    /\ table' = StaticTable(pairs)
    /\ pc' = [pc EXCEPT !.table = "done"]
    /\ UNCHANGED <<pairs, ranges, sel, panic>>

CalculateRanges ==
    /\ pc.ranges = "ready"
    /\ Len(pairs) # 0                      \* assert_ne!(len, 0)
    /\ \E ds \in SortUnstableByWidth(Gaps(pairs)) :
          /\ panic' = Panic(pairs, ds)
          /\ sel' = Selected(pairs, ds)
          /\ ranges' = IF panic' = "none" THEN CalculateRangesWith(pairs, ds)
                        ELSE NoOut
    /\ pc' = [pc EXCEPT !.ranges = IF panic' = "none" THEN "done" ELSE "panicked"]
    /\ UNCHANGED <<pairs, table>>

Next == WriteStaticTable \/ CalculateRanges

Spec == Init /\ [][Next]_vars

----------------------------------------------------------------------------
(* Vocabulary of the properties, stated on the input and on the returned   *)
(* value only.                                                             *)

Done == pc.ranges = "done"

PairSet == SeqRange(pairs)

\* Break points: positions i (1-based) with pairs[i+1] - pairs[i] > 1.
Breaks == { i \in 1 .. (Len(pairs) - 1) : pairs[i + 1] - pairs[i] > 1 }

Width(i) == pairs[i + 1] - pairs[i]

\* The groups of the returned value, read by its shape: the ranges are the
\* leading byte pairs, the escapes follow, the flag is not a group.
NR == ranges.ranges
NE == ranges.escapes
Lo(k) == ranges.bytes[2 * k - 1]
Hi(k) == ranges.bytes[2 * k]
Esc(k) == ranges.bytes[2 * NR + k]
ShapeFits == Len(ranges.bytes) = 2 * NR + NE + (IF ranges.flag THEN 1 ELSE 0)

RangeSet == { <<Lo(k), Hi(k)>> : k \in 1 .. NR }
EscapeSet == { Esc(k) : k \in 1 .. NE }

Covered(b) == \/ \E r \in RangeSet : r[1] <= b /\ b <= r[2]
              \/ b \in EscapeSet

\* The segment of pairs from position s to position e, as the group that
\* encodes it exactly.
SegRanges(segs) == { <<pairs[g[1]], pairs[g[2]]>> : g \in { x \in segs : x[1] < x[2] } }
SegEscapes(segs) == { pairs[g[1]] : g \in { x \in segs : x[1] = x[2] } }

\* The groups are exactly the segments segs (a set of <<start, end>>).
GroupsAre(segs) ==
    /\ ShapeFits
    /\ RangeSet = SegRanges(segs)
    /\ EscapeSet = SegEscapes(segs)
    /\ NR = Cardinality(SegRanges(segs))
    /\ NE = Cardinality(SegEscapes(segs))

\* The segments the break points in B cut the pair list into.
Segments(B) ==
    LET starts == {1} \cup { i + 1 : i \in B }
        ends   == B \cup {Len(pairs)}
    IN  { <<s, Min({ e \in ends : e >= s })>> : s \in starts }

\* The maximal contiguous runs of the input.
Runs == Segments(Breaks)

----------------------------------------------------------------------------
(* Properties *)

\* C1. Soundness: once calculate_ranges has returned, every byte of the
\* input pair list lies inside some emitted Range or equals some emitted
\* Singleton, whichever way the unstable sort ordered equal widths.
C1_Soundness ==
    Done => ShapeFits /\ \A b \in PairSet : Covered(b)

\* C1 witness: an input with at least three break points, two of them of
\* equal width, has been encoded with a Range.
C1_Witness ==
    /\ Done
    /\ Cardinality(Breaks) >= 3
    /\ \E i, j \in Breaks : i # j /\ Width(i) = Width(j)
    /\ NR >= 1 /\ NE >= 1

\* C2. Group budget: calculate_ranges returns at most 3 groups (Ranges plus
\* Singletons) and between 2 and 6 bytes, the flag included, however many
\* break points the input has.
C2_GroupBudget ==
    Done => /\ ShapeFits
            /\ NR + NE >= 1
            /\ NR + NE <= 3
            /\ Len(ranges.bytes) >= 2
            /\ Len(ranges.bytes) <= 6

\* C2 witness: an input with at least five break points was encoded in
\* three groups.
C2_Witness ==
    Done /\ Cardinality(Breaks) >= 5 /\ NR + NE = 3

\* C3. Sentinel: FLAG is appended as the final byte after the group bytes
\* if and only if the emitted groups hold no Range or hold two or more
\* Singletons.
C3_Sentinel ==
    Done => /\ ranges.flag <=> (NR = 0 \/ NE >= 2)
            /\ ShapeFits
            /\ ranges.flag => Last(ranges.bytes) = FLAG

\* C3 witness: one Range and two Singletons were emitted, followed by FLAG.
C3_Witness ==
    Done /\ NR = 1 /\ NE = 2 /\ ranges.flag /\ Len(ranges.bytes) = 5

\* C4. Classification table: write_static_table emits exactly 256 entries,
\* entry b being i when pairs[i].char = b and the pair count when b is the
\* byte of no pair.
C4_TableComplete ==
    pc.table = "done" =>
        /\ Len(table) = 256
        /\ \A b \in 0 .. 255 :
              IF b \in PairSet
              THEN \E i \in 1 .. Len(pairs) : pairs[i] = b /\ table[b + 1] = i - 1
              ELSE table[b + 1] = Len(pairs)

\* C4 witness: the table of a list of at least three pairs that holds byte
\* 255 and not byte 0 has been written.
C4_Witness ==
    /\ pc.table = "done"
    /\ Len(pairs) >= 3
    /\ 255 \in PairSet
    /\ 0 \notin PairSet
    /\ table[256] = Len(pairs) - 1
    /\ table[1] = Len(pairs)

\* The original statement of C5: every Range [lo, hi] emitted is a maximal
\* run of consecutive input bytes, every byte in lo..hi being an input byte.
C5_Original ==
    Done => \A r \in RangeSet :
               /\ \A b \in r[1] .. r[2] : b \in PairSet
               /\ (r[1] - 1) \notin PairSet
               /\ (r[2] + 1) \notin PairSet

\* C5 (amended). Every Range [lo, hi] emitted has lo < hi, both input bytes,
\* with lo - 1 and hi + 1 not input bytes; when the input has at most two
\* break points every byte in lo..hi is an input byte (the Range is a maximal
\* run), while with three or more break points a Range may span narrower
\* gaps.
C5_RangesAreRuns ==
    Done => \A r \in RangeSet :
               /\ r[1] < r[2]
               /\ r[1] \in PairSet /\ r[2] \in PairSet
               /\ (r[1] - 1) \notin PairSet
               /\ (r[2] + 1) \notin PairSet
               /\ Cardinality(Breaks) <= 2 => \A b \in r[1] .. r[2] : b \in PairSet

\* C5 witness: an input with two break points was encoded with two Ranges,
\* one of them over at least three bytes.
C5_Witness ==
    /\ Done
    /\ Cardinality(Breaks) = 2
    /\ NR = 2
    /\ \E r \in RangeSet : r[2] - r[1] >= 2

\* The consumer's decode rule: a final FLAG makes every byte before it a
\* Singleton; otherwise bytes are taken two at a time as Range{lo, hi} and a
\* single leftover byte is a Singleton.
ConsumerRanges(bytes) ==
    IF Last(bytes) = FLAG THEN {}
    ELSE { <<bytes[2 * k - 1], bytes[2 * k]>> : k \in 1 .. (Len(bytes) \div 2) }

ConsumerSingles(bytes) ==
    IF Last(bytes) = FLAG THEN { bytes[k] : k \in 1 .. (Len(bytes) - 1) }
    ELSE IF Len(bytes) % 2 = 1 THEN { Last(bytes) } ELSE {}

ConsumerCovers(bytes, b) ==
    \/ \E r \in ConsumerRanges(bytes) : r[1] <= b /\ b <= r[2]
    \/ b \in ConsumerSingles(bytes)

\* The original statement of C6: the groups the consumer's decode rule reads
\* from the returned bytes cover every input byte, for every valid input.
C6_Original ==
    Done => \A b \in PairSet : ConsumerCovers(ranges.bytes, b)

\* C6 (amended). The groups the consumer's decode rule reads from the
\* returned bytes cover every input byte whenever the returned sequence does
\* not end in 128 or the emitted groups hold no Range.
C6_ConsumerDecode ==
    (Done /\ (Last(ranges.bytes) # FLAG \/ NR = 0)) =>
        \A b \in PairSet : ConsumerCovers(ranges.bytes, b)

\* C6 witness: two Ranges and a trailing Singleton, one of the Ranges over
\* at least three bytes, were returned without a final 128.
C6_Witness ==
    /\ Done
    /\ Last(ranges.bytes) # FLAG
    /\ NR = 2 /\ NE = 1
    /\ \E r \in RangeSet : r[2] - r[1] >= 2

\* C7. Output ordering: the returned groups are the segments some break
\* points cut the input into, the Ranges (lo < hi) serialized first in
\* ascending order and the Singletons after them in ascending order, also
\* when a Singleton is smaller than every Range.
C7_Ordering ==
    Done => /\ \E B \in SUBSET Breaks : GroupsAre(Segments(B))
            /\ \A k \in 1 .. NR : Lo(k) < Hi(k)
            /\ \A k \in 1 .. (NR - 1) : Hi(k) < Lo(k + 1)
            /\ \A k \in 1 .. (NE - 1) : Esc(k) < Esc(k + 1)

\* C7 witness: two Ranges were returned before a Singleton smaller than both.
C7_Witness ==
    Done /\ NR = 2 /\ NE = 1 /\ Esc(1) < Lo(1)

\* The original statement of C8: an input without break point, a single pair
\* included, returns exactly [first, last] as one Range, without FLAG.
C8_Original ==
    (Done /\ Breaks = {}) =>
        /\ ranges.bytes = <<pairs[1], pairs[Len(pairs)]>>
        /\ NR = 1 /\ NE = 0 /\ ~ranges.flag

\* C8 (amended). An input of at least two pairs without break point returns
\* exactly [first, last] as one Range, without FLAG; an input of a single
\* pair returns [byte, 128], one Singleton followed by FLAG.
C8_ZeroBreaks ==
    (Done /\ Breaks = {}) =>
        IF Len(pairs) >= 2
        THEN /\ ranges.bytes = <<pairs[1], pairs[Len(pairs)]>>
             /\ NR = 1 /\ NE = 0 /\ ~ranges.flag
        ELSE /\ ranges.bytes = <<pairs[1], FLAG>>
             /\ NR = 0 /\ NE = 1 /\ ranges.flag

\* C8 witness: a contiguous run of at least three pairs was encoded.
C8_Witness ==
    Done /\ Breaks = {} /\ Len(pairs) >= 3 /\ Len(ranges.bytes) = 2

\* C9. Exact encoding: for an input of at least two pairs with at most two
\* break points the emitted groups are exactly its maximal runs, a run of one
\* byte as a Singleton and a longer run as a Range, and the bytes the groups
\* cover are exactly the input bytes.
C9_ExactRuns ==
    (Done /\ Len(pairs) >= 2 /\ Cardinality(Breaks) <= 2) =>
        /\ GroupsAre(Runs)
        /\ { b \in 0 .. 255 : Covered(b) } = PairSet

\* C9 witness: three runs, the middle one a Range over at least three bytes
\* and the outer ones single bytes, were encoded.
C9_Witness ==
    /\ Done
    /\ Cardinality(Breaks) = 2
    /\ NR = 1 /\ NE = 2
    /\ Hi(1) - Lo(1) >= 2
    /\ Esc(1) < Lo(1) /\ Hi(1) < Esc(2)

\* C10. Largest gaps: for an input of more than three pairs with two or more
\* break points the three emitted groups are the segments cut at two break
\* points i < j such that every other break point is no wider than either of
\* them and lies inside a Range.
C10_LargestGaps ==
    (Done /\ Cardinality(Breaks) >= 2 /\ Len(pairs) > 3) =>
        \E i, j \in Breaks :
            /\ i < j
            /\ GroupsAre(Segments({i, j}))
            /\ NR + NE = 3
            /\ \A k \in Breaks \ {i, j} :
                  /\ Width(k) <= Width(i)
                  /\ Width(k) <= Width(j)
                  /\ \E r \in RangeSet : r[1] <= pairs[k] /\ pairs[k + 1] <= r[2]

\* C10 witness: an input with at least four break points of at least three
\* different widths was encoded.
C10_Witness ==
    /\ Done
    /\ Cardinality(Breaks) >= 4
    /\ Cardinality({ Width(i) : i \in Breaks }) >= 3
    /\ NR + NE = 3

\* C11. No failure on valid input: calculate_ranges returns without a panic
\* (no u8 underflow in the gap loop, assert_eq!(len, 2) holds, no index out
\* of the pair list), the two selected positions satisfy
\* first < last <= len - 1, and the indexes 0, first, first + 1, last,
\* last + 1 and len the push_* helpers use are within the pair list.
C11_NoPanic ==
    pc.ranges # "ready" =>
        /\ pc.ranges = "done"
        /\ panic = "none"
        /\ OutOfBounds \notin SeqRange(ranges.bytes)
        /\ (Cardinality(Breaks) >= 2 /\ Len(pairs) <= 3) => Len(pairs) = 3
        /\ sel # << >> <=> (Cardinality(Breaks) >= 2 /\ Len(pairs) > 3)
        /\ sel # << >> =>
              /\ 0 <= sel[1]
              /\ sel[1] < sel[2]
              /\ sel[2] <= Len(pairs) - 2
              /\ {0, sel[1], sel[1] + 1, sel[2], sel[2] + 1, Len(pairs) - 1}
                     \subseteq 0 .. (Len(pairs) - 1)

\* C11 witness: calculate_ranges returned for an input with at least three
\* break points where the selected positions are the first and the last one,
\* so that the helper read pairs[last + 1] = pairs[len].
C11_Witness ==
    /\ Done
    /\ Cardinality(Breaks) >= 3
    /\ sel # << >>
    /\ sel[1] = 0
    /\ sel[2] + 1 = Len(pairs) - 1
    /\ Len(ranges.bytes) = 5

\* Every value calculate_ranges can return for a valid input, with the pair
\* count of that input.
Encodings ==
    UNION { { [n |-> Len(q), out |-> CalculateRangesWith(q, ds)] :
                ds \in SortUnstableByWidth(Gaps(q)) } :
            q \in ValidPairs }

\* C12. Unambiguous encoding: the returned bytes and the pair count determine
\* the groups; any valid input with as many pairs as this one that
\* calculate_ranges encodes to the same bytes is encoded with the same
\* Ranges, the same Singletons and the same sentinel decision.
C12_Unambiguous ==
    Done => \A e \in Encodings :
               (e.n = Len(pairs) /\ e.out.bytes = ranges.bytes) => e.out = ranges

====
